---------------------------- MODULE Spec2Model ----------------------------
(***************************************************************************)
(* The credit card optimizer of creditvaluation.py: reward-rate            *)
(* resolution, rebate overlap resolution, portfolio evaluation and the     *)
(* prefiltered exhaustive search.                                          *)
(*                                                                         *)
(* Units.  The program computes in floating-point dollars.  Here spend,    *)
(* rebate amounts and fees are whole dollars and point_value is held in    *)
(* hundredths of a dollar per point (0.01 -> 1), so rate*spend*point_value *)
(* is a whole number of cents.  Reward values and net values are cents;    *)
(* rebate totals and fees are scaled by 100 where they enter a net value.  *)
(*                                                                         *)
(* Python's None is the empty sequence <<>> and a present value x is       *)
(* <<x>> (max_cards, max_portfolio_size, best_card, best_portfolio).       *)
(* A dict is a function; a card is a record whose optional keys            *)
(* (point_value, annual_fee, rebates, description) may be absent.          *)
(***************************************************************************)
EXTENDS Integers, Sequences, FiniteSets, TLC

VARIABLES
    credit_cards,       \* the cards handed to the engine, in order
    annual_spending,    \* the caller's spending dict: category -> dollars
    rebate_usage,       \* the caller's usage dict: name -> (idx -> BOOLEAN)
    max_cards,          \* find_best_portfolio's max_cards (<<>> is None)
    max_portfolio_size, \* find_best_portfolio's max_portfolio_size
    include_rebates,    \* find_best_portfolio's include_rebates
    pc,                 \* where the step-wise apply_rebates call stands
    category_rebates,   \* apply_rebates: the sorted list being walked
    pos,                \* apply_rebates: next position of that list
    remaining_spend,    \* apply_rebates: the dict of line 58
    total_rebate,       \* apply_rebates: running total
    per_card_details,   \* apply_rebates: the ledger
    applied_rebates,    \* apply_rebates: set of (name, idx) of line 75
    eval_history,       \* the last two results of evaluate_portfolio since the inputs last changed
    search_result       \* the last result of find_best_portfolio

vars == <<credit_cards, annual_spending, rebate_usage, max_cards,
          max_portfolio_size, include_rebates, pc, category_rebates, pos,
          remaining_spend, total_rebate, per_card_details, applied_rebates,
          eval_history, search_result>>

inputs == <<credit_cards, annual_spending, rebate_usage, max_cards,
            max_portfolio_size, include_rebates>>

walk == <<category_rebates, pos, remaining_spend, total_rebate,
          per_card_details, applied_rebates>>

---------------------------------------------------------------------------
(* Bounds of the model *)

\* longest card list handed to the engine
MaxCards == 2

---------------------------------------------------------------------------
(* Program constants *)

MAX_CARDS_TO_CONSIDER == 16

MAX_PORTFOLIO_SIZE == 4

\* line 176 starts best_val at -1e12 dollars, below every net value; the
\* model holds the same role in a number TLC's integers can carry.
BEST_VAL_START == -2000000000

\* card.get("point_value", 0.01), in hundredths
DefaultPointValue == 1

categories ==
    <<"groceries", "dining", "flights_portal", "hotel", "gas",
      "online_shopping", "other">>

category_map ==
    [groceries       |-> <<"groceries", "supermarkets", "online_grocery">>,
     dining          |-> <<"dining", "restaurants">>,
     flights_portal  |-> <<"flights_portal", "flights", "travel_portal", "other_travel">>,
     hotel           |-> <<"hotel", "hotels_portal", "lodging", "travel_portal">>,
     gas             |-> <<"gas", "transport", "transit">>,
     online_shopping |-> <<"online_shopping", "top", "other">>,
     other           |-> <<"other">>]

---------------------------------------------------------------------------
(* Generic helpers: Python's dict.get, min, sum, range *)

Get(d, k, default) == IF k \in DOMAIN d THEN d[k] ELSE default

Min(a, b) == IF a <= b THEN a ELSE b

Range(s) == {s[i] : i \in DOMAIN s}

EmptyDict == [x \in {} |-> 0]

RECURSIVE SumSeq(_)
SumSeq(s) == IF s = <<>> THEN 0 ELSE s[1] + SumSeq(Tail(s))

\* d[k] = v on a dict, adding the key when it is absent
DictSet(d, k, v) == [x \in DOMAIN d \cup {k} |-> IF x = k THEN v ELSE d[x]]

\* d.setdefault(k, default), as the dict after the call
SetDefault(d, k, default) == IF k \in DOMAIN d THEN d ELSE DictSet(d, k, default)

---------------------------------------------------------------------------
(* The cards the model draws from.  Names are unique (the catalog's key). *)

CatRebate(cat, amount) == [type |-> "category", category |-> cat, amount |-> amount]

FlatRebate(amount) == [type |-> "flat", amount |-> amount]

\* the regression fixture's CardA; no "rebates" key
CardA ==
    [name |-> "CardA", annual_fee |-> 95, point_value |-> 1,
     rewards |-> [dining |-> 3]]

\* the regression fixture's CardB
CardB ==
    [name |-> "CardB", annual_fee |-> 0, point_value |-> 1,
     rewards |-> [all |-> 1], rebates |-> <<>>]

CardC ==
    [name |-> "CardC", annual_fee |-> 250, point_value |-> 1,
     rewards |-> [restaurants |-> 4, other |-> 0],
     rebates |-> <<[type |-> "category", category |-> "dining", amount |-> 300,
                    description |-> "Dining credit"],
                   FlatRebate(100)>>]

\* no "annual_fee" and no "point_value" key
CardD ==
    [name |-> "CardD", rewards |-> EmptyDict,
     rebates |-> <<[type |-> "flat", amount |-> 50, description |-> "Lounge"],
                   CatRebate("dining", 300)>>]

CardE ==
    [name |-> "CardE", annual_fee |-> 0, point_value |-> 2,
     rewards |-> [top |-> 2, all |-> 0],
     rebates |-> <<CatRebate("other", 50), CatRebate("dining", 400), FlatRebate(0)>>]

\* holds a rebate on a category no spending profile has
CardF ==
    [name |-> "CardF", annual_fee |-> 95, point_value |-> 1,
     rewards |-> [dining |-> 3],
     rebates |-> <<CatRebate("streaming", 20), FlatRebate(30)>>]

CardPool == {CardA, CardB, CardC, CardD, CardE, CardF}

\* the card lists of length 0..n with no card twice
RECURSIVE CardLists(_)
CardLists(n) ==
    IF n = 0 THEN {<<>>}
    ELSE LET shorter == CardLists(n - 1)
         IN  shorter \cup
             {Append(s, c) : <<s, c>> \in
                 {p \in shorter \X CardPool :
                     Len(p[1]) = n - 1 /\ p[2] \notin Range(p[1])}}

\* a spending profile over the canonical categories
Profile(dining, other) ==
    [c \in Range(categories) |->
        IF c = "dining" THEN dining ELSE IF c = "other" THEN other ELSE 0]

\* the profiles the model draws from, the fixture's (4800, 0) among them
Profiles == {Profile(0, 0), Profile(250, 100), Profile(500, 0), Profile(4800, 0)}

card_rebates(card) == Get(card, "rebates", <<>>)

\* line 258: every rebate of every card starts as "use"
InitialUsage(cards) ==
    [n \in {c.name : c \in Range(cards)} |->
        LET card == CHOOSE c \in Range(cards) : c.name = n
        IN  [i \in 0 .. Len(card_rebates(card)) - 1 |-> TRUE]]

---------------------------------------------------------------------------
(* get_reward_rate, lines 40-54 *)

\* the first key of keys, from position i on, that the rewards dict holds
RECURSIVE FirstKeyIn(_, _, _)
FirstKeyIn(keys, rewards, i) ==
    IF i > Len(keys) THEN <<>>
    ELSE IF keys[i] \in DOMAIN rewards THEN <<keys[i]>>
    ELSE FirstKeyIn(keys, rewards, i + 1)

keys_to_try(category) == Get(category_map, category, <<"other">>) \o <<"all">>

get_reward_rate(card, category) ==
    LET hit == FirstKeyIn(keys_to_try(category), card.rewards, 1)
    IN  IF hit # <<>> THEN card.rewards[hit[1]] ELSE 1

point_value(card) == Get(card, "point_value", DefaultPointValue)

annual_fee(card) == Get(card, "annual_fee", 0)

---------------------------------------------------------------------------
(* apply_rebates, lines 56-111 *)

\* the caller's own dict, under a second name
dict_alias(d) == [shared |-> TRUE, items |-> d]

\* line 58: dict(annual_spending) is a new dict with the same items.  An
\* object is held with a mark telling whether it is the caller's own dict.
dict_copy(d) == [shared |-> FALSE, items |-> d]

\* what the caller's dict holds once the callee's dict rs has been written
CallerDict(d, rs) == IF rs.shared THEN rs.items ELSE d

\* lines 66-69: the category rebates of one card, from rebate position i on
RECURSIVE GatherCard(_, _)
GatherCard(card, i) ==
    LET rebates == card_rebates(card)
    IN  IF i > Len(rebates) THEN <<>>
        ELSE (IF rebates[i].type = "category"
              THEN <<[cat |-> rebates[i].category, amount |-> rebates[i].amount,
                      card |-> card.name, idx |-> i - 1, rebate |-> rebates[i]]>>
              ELSE <<>>) \o GatherCard(card, i + 1)

\* lines 65-69: over the cards in order
RECURSIVE Gather(_)
Gather(cards) ==
    IF cards = <<>> THEN <<>>
    ELSE GatherCard(cards[1], 1) \o Gather(Tail(cards))

\* x put before the elements of equal amount: a sort that is not stable
RECURSIVE InsertByAmountUnstable(_, _)
InsertByAmountUnstable(s, x) ==
    IF s = <<>> THEN <<x>>
    ELSE IF -s[1].amount < -x.amount THEN <<s[1]>> \o InsertByAmountUnstable(Tail(s), x)
    ELSE <<x>> \o s

\* x put into the list s sorted on -amount, behind every element whose key
\* is not greater than its own: list.sort is stable
RECURSIVE InsertByAmount(_, _)
InsertByAmount(s, x) ==
    IF s = <<>> THEN <<x>>
    ELSE IF -s[1].amount <= -x.amount THEN <<s[1]>> \o InsertByAmount(Tail(s), x)
    ELSE <<x>> \o s

\* line 72: category_rebates.sort(key=lambda x: -x[1]), on the first n elements
RECURSIVE SortByAmount(_, _)
SortByAmount(s, n) ==
    IF n = 0 THEN <<>>
    ELSE InsertByAmount(SortByAmount(s, n - 1), s[n])

sorted_category_rebates(cards) ==
    LET gathered == Gather(cards) IN SortByAmount(gathered, Len(gathered))

\* the rebate taken in full, whatever spend is left
used_of_uncapped(spent, amount) == amount

\* line 80
used_of(spent, amount) == Min(spent, amount)

CategoryEntry(cr, used) ==
    [idx |-> cr.idx,
     description |-> Get(cr.rebate, "description", "Category Rebate"),
     is_category |-> TRUE,
     used |-> used,
     amount |-> cr.amount,
     applied |-> used > 0]

\* the ledger with entry e appended to name's list (setdefault + append)
LedgerAppend(details, name, e) ==
    DictSet(details, name, Append(Get(details, name, <<>>), e))

\* the state the walk of apply_rebates starts in, lines 58-62 and 75
WalkStart(annual_spending_) ==
    [remaining_spend |-> dict_copy(annual_spending_),
     total_rebate |-> 0,
     per_card_details |-> EmptyDict,
     applied_rebates |-> {},
     raised |-> FALSE]

\* one turn of the loop of lines 78-92.  remaining_spend[cat] -= used of
\* line 83 raises KeyError when cat is no key of the dict; total_rebate has
\* then been added to already and nothing else is written.
CategoryStep(st, cr) ==
    LET rem   == st.remaining_spend.items
        spent == Get(rem, cr.cat, 0)
        used  == used_of(spent, cr.amount)
    IN  IF cr.cat \notin DOMAIN rem
        THEN [st EXCEPT !.total_rebate = @ + used, !.raised = TRUE]
        ELSE [st EXCEPT
                !.total_rebate = @ + used,
                !.remaining_spend.items = [rem EXCEPT ![cr.cat] = @ - used],
                !.per_card_details = LedgerAppend(@, cr.card, CategoryEntry(cr, used)),
                !.applied_rebates = @ \cup {<<cr.card, cr.idx>>}]

\* the loop of lines 78-92 from position i on; it stops where a turn raises
RECURSIVE CategoryWalk(_, _, _)
CategoryWalk(st, crs, i) ==
    IF i > Len(crs) \/ st.raised THEN st
    ELSE CategoryWalk(CategoryStep(st, crs[i]), crs, i + 1)

\* the usage state never consulted
used_flag_always(rebate_usage_, name, idx) == TRUE

\* line 99
used_flag(rebate_usage_, name, idx) ==
    Get(Get(rebate_usage_, name, EmptyDict), idx, TRUE)

FlatEntry(idx, rebate, flag) ==
    [idx |-> idx,
     description |-> Get(rebate, "description", "Flat Rebate"),
     is_category |-> FALSE,
     used |-> IF flag THEN rebate.amount ELSE 0,
     amount |-> rebate.amount,
     applied |-> flag]

\* lines 97-109 for one card, from rebate position i on
RECURSIVE FlatCard(_, _, _, _)
FlatCard(st, card, rebate_usage_, i) ==
    LET rebates == card_rebates(card)
    IN  IF i > Len(rebates) THEN st
        ELSE IF rebates[i].type = "flat"
        THEN LET flag == used_flag(rebate_usage_, card.name, i - 1)
             IN  FlatCard(
                    [st EXCEPT
                        !.total_rebate = IF flag THEN @ + rebates[i].amount ELSE @,
                        !.per_card_details =
                            LedgerAppend(@, card.name, FlatEntry(i - 1, rebates[i], flag))],
                    card, rebate_usage_, i + 1)
        ELSE FlatCard(st, card, rebate_usage_, i + 1)

\* lines 95-109: over the cards in order; line 96 gives every card a list
RECURSIVE FlatWalk(_, _, _)
FlatWalk(st, cards, rebate_usage_) ==
    IF cards = <<>> THEN st
    ELSE FlatWalk(
            FlatCard([st EXCEPT !.per_card_details =
                                    SetDefault(@, cards[1].name, <<>>)],
                     cards[1], rebate_usage_, 1),
            Tail(cards), rebate_usage_)

\* the whole call.  annual_spending is the caller's dict as the call leaves it.
apply_rebates(cards, annual_spending_, rebate_usage_) ==
    LET walked == CategoryWalk(WalkStart(annual_spending_),
                               sorted_category_rebates(cards), 1)
        done   == IF walked.raised THEN walked
                  ELSE FlatWalk(walked, cards, rebate_usage_)
    IN  [raised |-> done.raised,
         total_rebate |-> done.total_rebate,
         per_card_details |-> done.per_card_details,
         annual_spending |-> CallerDict(annual_spending_, done.remaining_spend)]

---------------------------------------------------------------------------
(* evaluate_portfolio, lines 114-136 *)

\* the product of line 123 with its first * mistyped as -
card_value_mistyped(card, cat, spend) ==
    get_reward_rate(card, cat) - spend * point_value(card)

\* line 123, in cents
card_value(card, cat, spend) == get_reward_rate(card, cat) * spend * point_value(card)

\* line 124: the test that lets a card take over a category
takes_over(val, best_val) == val > best_val

\* lines 120-125 from card position i on; best is <<best_card, best_val>>
RECURSIVE BestCard(_, _, _, _, _)
BestCard(cards, cat, spend, best, i) ==
    IF i > Len(cards) THEN best
    ELSE LET val == card_value(cards[i], cat, spend)
         IN  BestCard(cards, cat, spend,
                      IF takes_over(val, best[2]) THEN <<(<<cards[i].name>>), val>> ELSE best,
                      i + 1)

\* lines 119-126: category -> <<best_card, best_val>>, best_card None as <<>>
assignment_of(cards, annual_spending_) ==
    [cat \in DOMAIN annual_spending_ |->
        BestCard(cards, cat, annual_spending_[cat], <<(<<>>), 0>>, 1)]

\* the sum of f over the finite set S
RECURSIVE SumOver(_, _)
SumOver(f, S) ==
    IF S = {} THEN 0
    ELSE LET x == CHOOSE y \in S : TRUE IN f[x] + SumOver(f, S \ {x})

\* line 133
fees_of(cards) == SumSeq([i \in 1 .. Len(cards) |-> annual_fee(cards[i])])

\* the whole call; net, rewards in cents, fees in dollars.  A KeyError of
\* apply_rebates leaves the call with no result.
evaluate_portfolio(cards, annual_spending_, rebate_usage_) ==
    LET assignment    == assignment_of(cards, annual_spending_)
        total_rewards == SumOver([c \in DOMAIN assignment |-> assignment[c][2]],
                                 DOMAIN assignment)
        rebates       == apply_rebates(cards, annual_spending_, rebate_usage_)
        fees          == fees_of(cards)
    IN  IF rebates.raised
        THEN [raised |-> TRUE, annual_spending |-> rebates.annual_spending]
        ELSE [raised |-> FALSE,
              total_net |-> total_rewards + 100 * rebates.total_rebate - 100 * fees,
              assignment |-> assignment,
              per_card_details |-> rebates.per_card_details,
              total_rewards |-> total_rewards,
              fees |-> fees,
              annual_spending |-> rebates.annual_spending]

---------------------------------------------------------------------------
(* _score_card_approx, lines 138-163 *)

\* lines 145-154: the rate the scorer uses, without the alias table
approx_rate(card, cat) ==
    IF cat \in DOMAIN card.rewards THEN card.rewards[cat]
    ELSE LET hit == FirstKeyIn(<<cat, "all">>, card.rewards, 1)
         IN  IF hit # <<>> THEN card.rewards[hit[1]] ELSE 1

\* lines 157-160
approx_flat(card) ==
    LET rebates == card_rebates(card)
    IN  SumSeq([i \in 1 .. Len(rebates) |->
                  IF Get(rebates[i], "type", "") = "flat"
                  THEN Get(rebates[i], "amount", 0) ELSE 0])

\* in cents
score_card_approx(card, annual_spending_, include_rebates_) ==
    SumOver([cat \in DOMAIN annual_spending_ |->
                approx_rate(card, cat) * annual_spending_[cat] * point_value(card)],
            DOMAIN annual_spending_)
    + (IF include_rebates_ THEN 100 * approx_flat(card) ELSE 0)
    - 100 * annual_fee(card)

---------------------------------------------------------------------------
(* find_best_portfolio, lines 166-189 *)

\* the list sorted on score ascending
RECURSIVE InsertByScoreAscending(_, _)
InsertByScoreAscending(s, x) ==
    IF s = <<>> THEN <<x>>
    ELSE IF s[1].score <= x.score THEN <<s[1]>> \o InsertByScoreAscending(Tail(s), x)
    ELSE <<x>> \o s

\* x put into the list s of (card, score) sorted on -score, stable
RECURSIVE InsertByScore(_, _)
InsertByScore(s, x) ==
    IF s = <<>> THEN <<x>>
    ELSE IF -s[1].score <= -x.score THEN <<s[1]>> \o InsertByScore(Tail(s), x)
    ELSE <<x>> \o s

\* line 173: scored.sort(key=lambda x: -x[1]), on the first n elements
RECURSIVE SortByScore(_, _)
SortByScore(s, n) ==
    IF n = 0 THEN <<>>
    ELSE InsertByScore(SortByScore(s, n - 1), s[n])

\* s[:n] for n >= 0
Take(s, n) == SubSeq(s, 1, Min(n, Len(s)))

\* lines 169-174; max_cards_ is <<>> for None
cards_to_consider(cards, annual_spending_, max_cards_, include_rebates_) ==
    IF max_cards_ # <<>> /\ Len(cards) > max_cards_[1]
    THEN LET scored == [i \in 1 .. Len(cards) |->
                          [card |-> cards[i],
                           score |-> score_card_approx(cards[i], annual_spending_,
                                                       include_rebates_)]]
             sorted == SortByScore(scored, Len(scored))
             kept   == Take(sorted, max_cards_[1])
         IN  [i \in 1 .. Len(kept) |-> kept[i].card]
    ELSE cards

\* line 178
max_r_of(n, max_portfolio_size_) ==
    IF max_portfolio_size_ = <<>> THEN n ELSE Min(n, max_portfolio_size_[1])

\* itertools.combinations(range(lo, n+1), r): index lists in its order
RECURSIVE Combos(_, _, _)
CombosFrom(i, n, r) ==
    LET rest == Combos(i + 1, n, r - 1)
    IN  [j \in 1 .. Len(rest) |-> <<i>> \o rest[j]]
Combos(lo, n, r) ==
    IF r = 0 THEN << <<>> >>
    ELSE IF lo > n THEN <<>>
    ELSE CombosFrom(lo, n, r) \o Combos(lo + 1, n, r)

\* lines 179-180: every subset the two loops visit, in their order
RECURSIVE Subsets(_, _, _)
Subsets(n, r, max_r) ==
    IF r > max_r THEN <<>>
    ELSE Combos(1, n, r) \o Subsets(n, r + 1, max_r)

Pick(cards, ix) == [j \in 1 .. Len(ix) |-> cards[ix[j]]]

\* a subset of equal value replaces the best one too
improves_or_ties(val, best_val) == val >= best_val

\* line 183: the test that lets a subset replace the best one
improves(val, best_val) == val > best_val

\* line 182: the usage state handed to the evaluator
usage_for(rebate_usage_, include_rebates_) ==
    IF include_rebates_ THEN rebate_usage_ ELSE EmptyDict

SearchStart ==
    [raised |-> FALSE, best_portfolio |-> <<>>, best_val |-> BEST_VAL_START,
     best_assignment |-> EmptyDict, best_details |-> EmptyDict,
     best_rewards |-> 0, best_fees |-> 0]

\* lines 180-185 from subset position i on; an evaluation that raises ends the call
RECURSIVE SearchLoop(_, _, _, _, _, _)
SearchLoop(best, cands, subsets, annual_spending_, usage, i) ==
    IF i > Len(subsets) THEN best
    ELSE LET subset == Pick(cands, subsets[i])
             ev     == evaluate_portfolio(subset, annual_spending_, usage)
         IN  IF ev.raised THEN [raised |-> TRUE]
             ELSE SearchLoop(
                    IF improves(ev.total_net, best.best_val)
                    THEN [raised |-> FALSE, best_portfolio |-> <<subset>>,
                          best_val |-> ev.total_net,
                          best_assignment |-> ev.assignment,
                          best_details |-> ev.per_card_details,
                          best_rewards |-> ev.total_rewards,
                          best_fees |-> ev.fees]
                    ELSE best,
                    cands, subsets, annual_spending_, usage, i + 1)

\* the whole call, without the elapsed time
find_best_portfolio(cards, annual_spending_, rebate_usage_, max_cards_, max_portfolio_size_, include_rebates_) ==
    LET cands == cards_to_consider(cards, annual_spending_, max_cards_, include_rebates_)
        max_r == max_r_of(Len(cands), max_portfolio_size_)
    IN  SearchLoop(SearchStart, cands, Subsets(Len(cands), 1, max_r),
                   annual_spending_, usage_for(rebate_usage_, include_rebates_), 1)

---------------------------------------------------------------------------
(* The caller: CreditCardOptimizer, lines 194-345 *)

\* lines 273-281: the search with the module's default limits
calculate_and_show(cards, annual_spending_, rebate_usage_, include_rebates_) ==
    find_best_portfolio(cards, annual_spending_, rebate_usage_,
                        <<MAX_CARDS_TO_CONSIDER>>, <<MAX_PORTFOLIO_SIZE>>,
                        include_rebates_)

\* line 344: self.rebate_usage.setdefault(card, {})[idx] = (state == 2)
set_usage(rebate_usage_, name, idx, state) ==
    DictSet(rebate_usage_, name,
            DictSet(Get(rebate_usage_, name, EmptyDict), idx, state = 2))

\* lines 300-339: the (card, idx) pairs whose check box can be clicked: the
\* flat rebates of the cards of the portfolio shown
Clickable(result) ==
    IF result.raised \/ result.best_portfolio = <<>> THEN {}
    ELSE LET shown == result.best_portfolio[1]
         IN  UNION {{<<shown[i].name, j - 1>> :
                        j \in {k \in 1 .. Len(card_rebates(shown[i])) :
                                 card_rebates(shown[i])[k].type = "flat"}} :
                    i \in 1 .. Len(shown)}

---------------------------------------------------------------------------
(* State machine *)

NoWalk ==
    /\ category_rebates = <<>>
    /\ pos = 0
    /\ remaining_spend = dict_copy(EmptyDict)
    /\ total_rebate = 0
    /\ per_card_details = EmptyDict
    /\ applied_rebates = {}

\* the inputs of an evaluation: a card list, a profile, a usage state
InitInputs ==
    /\ credit_cards \in CardLists(MaxCards)
    /\ annual_spending \in Profiles
    /\ rebate_usage \in {EmptyDict, InitialUsage(credit_cards)}

\* after construction (lines 255-271), the limits at their defaults
Init ==
    /\ InitInputs
    /\ max_cards = <<MAX_CARDS_TO_CONSIDER>>
    /\ max_portfolio_size = <<MAX_PORTFOLIO_SIZE>>
    /\ include_rebates = TRUE
    /\ pc = "idle"
    /\ NoWalk
    /\ eval_history = <<>>
    /\ search_result = <<calculate_and_show(credit_cards, annual_spending,
                                            rebate_usage, include_rebates)>>

WalkState ==
    [remaining_spend |-> remaining_spend, total_rebate |-> total_rebate,
     per_card_details |-> per_card_details, applied_rebates |-> applied_rebates,
     raised |-> FALSE]

\* the walk variables take the fields of st; the caller's dict follows when
\* the callee's dict is the same object
SetWalk(st) ==
    /\ remaining_spend' = st.remaining_spend
    /\ total_rebate' = st.total_rebate
    /\ per_card_details' = st.per_card_details
    /\ applied_rebates' = st.applied_rebates
    /\ annual_spending' = CallerDict(annual_spending, st.remaining_spend)

\* apply_rebates(credit_cards, annual_spending, rebate_usage), lines 58-75
ApplyBegin ==
    /\ pc = "idle"
    /\ pc' = "category"
    /\ category_rebates' = sorted_category_rebates(credit_cards)
    /\ pos' = 1
    /\ SetWalk(WalkStart(annual_spending))
    /\ UNCHANGED <<credit_cards, rebate_usage, max_cards, max_portfolio_size,
                   include_rebates, eval_history, search_result>>

\* one turn of the loop of lines 78-92
ApplyCategoryRebate ==
    /\ pc = "category"
    /\ pos <= Len(category_rebates)
    /\ LET st == CategoryStep(WalkState, category_rebates[pos])
       IN  /\ SetWalk(st)
           /\ pc' = IF st.raised THEN "raised" ELSE "category"
    /\ pos' = pos + 1
    /\ UNCHANGED <<credit_cards, rebate_usage, max_cards, max_portfolio_size,
                   include_rebates, category_rebates, eval_history, search_result>>

\* lines 95-111: the flat rebates, and the return
ApplyFlatRebates ==
    /\ pc = "category"
    /\ pos > Len(category_rebates)
    /\ SetWalk(FlatWalk(WalkState, credit_cards, rebate_usage))
    /\ pc' = "returned"
    /\ UNCHANGED <<credit_cards, rebate_usage, max_cards, max_portfolio_size,
                   include_rebates, category_rebates, pos, eval_history,
                   search_result>>

\* the caller takes the result, or the KeyError, and the locals are gone
ApplyEnd ==
    /\ pc \in {"returned", "raised"}
    /\ pc' = "idle"
    /\ category_rebates' = <<>>
    /\ pos' = 0
    /\ remaining_spend' = dict_copy(EmptyDict)
    /\ total_rebate' = 0
    /\ per_card_details' = EmptyDict
    /\ applied_rebates' = {}
    /\ UNCHANGED <<inputs, eval_history, search_result>>

\* evaluate_portfolio(credit_cards, annual_spending, rebate_usage), whole
EvaluatePortfolio ==
    /\ pc = "idle"
    /\ LET ev == evaluate_portfolio(credit_cards, annual_spending, rebate_usage)
       IN  /\ eval_history' = IF eval_history = <<>> THEN <<ev>>
                               ELSE <<eval_history[Len(eval_history)], ev>>
           /\ annual_spending' = ev.annual_spending
    /\ UNCHANGED <<credit_cards, rebate_usage, max_cards, max_portfolio_size,
                   include_rebates, pc, walk, search_result>>

\* toggle_rebate(card, idx, state), lines 343-345, with the recalculation.
\* state is Qt's check state of the box just clicked: 2 checked, 0 unchecked.
ToggleRebate(card, idx, state) ==
    /\ pc = "idle"
    /\ search_result # <<>>
    /\ <<card, idx>> \in Clickable(search_result[1])
    /\ (state = 2) # used_flag(rebate_usage, card, idx)
    /\ rebate_usage' = set_usage(rebate_usage, card, idx, state)
    /\ search_result' = <<calculate_and_show(credit_cards, annual_spending,
                                             rebate_usage', include_rebates)>>
    /\ eval_history' = <<>>
    /\ UNCHANGED <<credit_cards, annual_spending, max_cards, max_portfolio_size,
                   include_rebates, pc, walk>>

Next ==
    \/ ApplyBegin
    \/ ApplyCategoryRebate
    \/ ApplyFlatRebates
    \/ ApplyEnd
    \/ EvaluatePortfolio
    \/ \E card \in {c.name : c \in CardPool}, idx \in 0 .. 2, state \in {0, 2} :
          ToggleRebate(card, idx, state)

Spec == Init /\ [][Next]_vars

---------------------------------------------------------------------------
(* The search called with every configuration *)

\* longest catalog handed to the search
MaxCatalog == 2

\* every flag of every rebate off
NoneUsed(cards) ==
    [n \in DOMAIN InitialUsage(cards) |->
        [i \in DOMAIN InitialUsage(cards)[n] |-> FALSE]]

\* max_cards: None, or a count from 0 on
MaxCardsChoices == {<<>>, <<0>>, <<1>>, <<2>>}

\* max_portfolio_size: None, or a number
MaxPortfolioSizeChoices == {<<>>, <<-1>>, <<0>>, <<1>>, <<2>>}

SearchInit ==
    /\ credit_cards \in CardLists(MaxCatalog)
    /\ annual_spending \in Profiles
    /\ rebate_usage \in {InitialUsage(credit_cards), NoneUsed(credit_cards)}
    /\ max_cards \in MaxCardsChoices
    /\ max_portfolio_size \in MaxPortfolioSizeChoices
    /\ include_rebates \in BOOLEAN
    /\ pc = "idle"
    /\ NoWalk
    /\ eval_history = <<>>
    /\ search_result = <<>>

\* find_best_portfolio called with the inputs and limits of the state
FindBestPortfolio ==
    /\ search_result = <<>>
    /\ search_result' = <<find_best_portfolio(credit_cards, annual_spending,
                                              rebate_usage, max_cards,
                                              max_portfolio_size, include_rebates)>>
    /\ UNCHANGED <<inputs, pc, walk, eval_history>>

SearchNext == FindBestPortfolio

SearchSpec == SearchInit /\ [][SearchNext]_vars

---------------------------------------------------------------------------
(* Helpers of the properties *)

Names(cards) == {cards[i].name : i \in DOMAIN cards}

CardNamed(cards, n) == CHOOSE c \in Range(cards) : c.name = n

\* the ledger entries as a set of [card, entry]
Entries(details) ==
    UNION {{[card |-> n, entry |-> details[n][i]] : i \in DOMAIN details[n]} :
           n \in DOMAIN details}

\* the category a category entry of the ledger is about
EntryCategory(cards, x) ==
    card_rebates(CardNamed(cards, x.card))[x.entry.idx + 1].category

\* the sum of g[x] over the set S
RECURSIVE SumSet(_, _)
SumSet(g, S) ==
    IF S = {} THEN 0
    ELSE LET x == CHOOSE y \in S : TRUE IN g[x] + SumSet(g, S \ {x})

\* what the category entries of a ledger used of category cat
CategoryUsed(cards, details, cat) ==
    LET S == {x \in Entries(details) :
                x.entry.is_category /\ EntryCategory(cards, x) = cat}
    IN  SumSet([x \in S |-> x.entry.used], S)

\* what all category entries of a ledger used
AllCategoryUsed(details) ==
    LET S == {x \in Entries(details) : x.entry.is_category}
    IN  SumSet([x \in S |-> x.entry.used], S)

\* the flat rebates of a card list, as <<name, idx>>
FlatRebates(cards) ==
    UNION {{<<cards[i].name, j - 1>> :
               j \in {k \in DOMAIN card_rebates(cards[i]) :
                        card_rebates(cards[i])[k].type = "flat"}} :
           i \in DOMAIN cards}

RebateOf(cards, f) == card_rebates(CardNamed(cards, f[1]))[f[2] + 1]

\* the usage flag of the data model: absent card or index counts as true
FlagOn(usage, f) ==
    \/ f[1] \notin DOMAIN usage
    \/ f[2] \notin DOMAIN usage[f[1]]
    \/ usage[f[1]][f[2]]

---------------------------------------------------------------------------
(* C1 *)

\* C1: while apply_rebates walks, the remaining spend of every category
\* stays >= 0, and once it has returned, the category-rebate ledger entries
\* of each category have used, over all cards together, at most that
\* category's input spend.
C1_NoDoubleCounting ==
    /\ pc \in {"category", "returned", "raised"} =>
          \A c \in DOMAIN remaining_spend.items : remaining_spend.items[c] >= 0
    /\ pc = "returned" =>
          \A c \in DOMAIN annual_spending :
              CategoryUsed(credit_cards, per_card_details, c) <= annual_spending[c]

\* two cards' rebates on one category have drawn on the same spend and the
\* later one was cut short by what the earlier one took
C1_Witness ==
    /\ pc = "returned"
    /\ \E x, y \in Entries(per_card_details) :
          /\ x.card # y.card
          /\ x.entry.is_category /\ y.entry.is_category
          /\ EntryCategory(credit_cards, x) = EntryCategory(credit_cards, y)
          /\ x.entry.used = x.entry.amount
          /\ 0 < y.entry.used /\ y.entry.used < y.entry.amount
          /\ remaining_spend.items[EntryCategory(credit_cards, x)] = 0

---------------------------------------------------------------------------
(* C2 *)

\* the sum of amount over the flat rebates whose flag is on
FlatOnSum(cards, usage) ==
    LET S == {f \in FlatRebates(cards) : FlagOn(usage, f)}
    IN  SumSet([f \in S |-> RebateOf(cards, f).amount], S)

\* the ledger entry of rebate f
EntryOf(details, f) ==
    CHOOSE x \in Entries(details) : x.card = f[1] /\ x.entry.idx = f[2]

\* C2: the flat-rebate part of apply_rebates' total is the sum of amount
\* over the flat rebates whose usage flag is true (absent counts as true);
\* turning one flat rebate's flag from true to false lowers the total by
\* that rebate's amount and leaves every other ledger entry as it was.
C2_FlatRebateTotals ==
    LET r == apply_rebates(credit_cards, annual_spending, rebate_usage)
    IN  pc = "idle" /\ ~r.raised =>
          /\ r.total_rebate - AllCategoryUsed(r.per_card_details)
                = FlatOnSum(credit_cards, rebate_usage)
          /\ \A f \in FlatRebates(credit_cards) :
                FlagOn(rebate_usage, f) =>
                   LET off == apply_rebates(credit_cards, annual_spending,
                                            set_usage(rebate_usage, f[1], f[2], 0))
                   IN  /\ ~off.raised
                       /\ off.total_rebate
                            = r.total_rebate - RebateOf(credit_cards, f).amount
                       /\ Entries(off.per_card_details) \ {EntryOf(off.per_card_details, f)}
                            = Entries(r.per_card_details) \ {EntryOf(r.per_card_details, f)}
                       /\ DOMAIN off.per_card_details = DOMAIN r.per_card_details

\* one flat rebate of positive amount has been switched off by
\* toggle_rebate while another one is still on
C2_Witness ==
    /\ pc = "idle"
    /\ ~apply_rebates(credit_cards, annual_spending, rebate_usage).raised
    /\ \E f, g \in FlatRebates(credit_cards) :
          /\ ~FlagOn(rebate_usage, f) /\ RebateOf(credit_cards, f).amount > 0
          /\ FlagOn(rebate_usage, g) /\ RebateOf(credit_cards, g).amount > 0

---------------------------------------------------------------------------
(* C3, C4, C5, C6: find_best_portfolio *)

Returned == search_result # <<>> /\ ~search_result[1].raised

HasPortfolio == Returned /\ search_result[1].best_portfolio # <<>>

\* C3 (as claimed): with include_rebates = false every flat-rebate ledger
\* entry of the returned portfolio has used = 0 and applied = false.
C3_FlatRebatesZeroed ==
    HasPortfolio /\ ~include_rebates =>
        \A x \in Entries(search_result[1].best_details) :
            ~x.entry.is_category => x.entry.used = 0 /\ ~x.entry.applied

Score(i) == score_card_approx(credit_cards[i], annual_spending, include_rebates)

\* card j stands before card i in the ranking by approximate score
Outranks(j, i) == Score(j) > Score(i) \/ (Score(j) = Score(i) /\ j < i)

\* the candidate set: the top max_cards cards by approximate score when
\* max_cards is set and the catalog is larger, the whole catalog otherwise
Candidates ==
    IF max_cards # <<>> /\ Len(credit_cards) > max_cards[1]
    THEN {credit_cards[i] : i \in
            {k \in DOMAIN credit_cards :
                Cardinality({j \in DOMAIN credit_cards : Outranks(j, k)}) < max_cards[1]}}
    ELSE Range(credit_cards)

\* C4: a returned portfolio has no card twice, at most max_portfolio_size
\* cards when that limit is set, and only cards of the candidate set.
C4_PortfolioWithinLimits ==
    HasPortfolio =>
        LET p == search_result[1].best_portfolio[1]
        IN  /\ \A i, j \in DOMAIN p : i # j => p[i].name # p[j].name
            /\ max_portfolio_size # <<>> => Len(p) <= max_portfolio_size[1]
            /\ Range(p) \subseteq Candidates

\* the prefilter dropped a card that stands earlier in the catalog than one
\* it kept, a size limit is set, and a portfolio was returned
C4_Witness ==
    /\ HasPortfolio
    /\ max_cards # <<>> /\ Len(credit_cards) > max_cards[1]
    /\ max_portfolio_size # <<>>
    /\ Len(search_result[1].best_portfolio[1]) = max_portfolio_size[1]
    /\ \E i, j \in DOMAIN credit_cards :
          i < j /\ credit_cards[i] \notin Candidates /\ credit_cards[j] \in Candidates

\* C5 (as claimed): with an empty catalog, or a non-empty catalog and
\* max_portfolio_size <= 0, the call fails with an error.
C5_NoPortfolioIsAnError ==
    /\ search_result # <<>>
    /\ \/ credit_cards = <<>>
       \/ max_portfolio_size # <<>> /\ max_portfolio_size[1] <= 0
    => search_result[1].raised

\* the candidate list of the call, and the subsets of its positions
Cands == cards_to_consider(credit_cards, annual_spending, max_cards, include_rebates)

SizeLimit ==
    IF max_portfolio_size = <<>> THEN Len(Cands)
    ELSE IF max_portfolio_size[1] < Len(Cands) THEN max_portfolio_size[1]
    ELSE Len(Cands)

IndexSets == {I \in SUBSET (1 .. Len(Cands)) : I # {} /\ Cardinality(I) <= SizeLimit}

\* the cards at the positions I, in the order of the candidate list
CardsAt(I) ==
    [k \in 1 .. Cardinality(I) |->
        Cands[CHOOSE x \in I : Cardinality({y \in I : y < x}) = k - 1]]

NetOf(I) ==
    evaluate_portfolio(CardsAt(I), annual_spending,
                       usage_for(rebate_usage, include_rebates)).total_net

\* I is enumerated before J: smaller first, equal sizes in combination order
EnumeratedBefore(I, J) ==
    \/ Cardinality(I) < Cardinality(J)
    \/ /\ Cardinality(I) = Cardinality(J)
       /\ I # J
       /\ LET D == (I \ J) \cup (J \ I)
          IN  (CHOOSE x \in D : \A y \in D : x <= y) \in I

\* C6: with candidates and max_portfolio_size >= 1 (or no limit), the net
\* value returned is the greatest net value evaluate_portfolio gives to a
\* non-empty subset of the candidates within the size limit, and the
\* portfolio returned is the first subset of that value in enumeration
\* order.  In the fixture the result is CardA alone with net value 49.
C6_BestIsFirstMaximum ==
    /\ Returned /\ Cands # <<>> /\ SizeLimit >= 1 =>
          /\ search_result[1].best_portfolio # <<>>
          /\ \E I \in IndexSets :
                /\ search_result[1].best_portfolio[1] = CardsAt(I)
                /\ search_result[1].best_val = NetOf(I)
                /\ \A J \in IndexSets :
                      /\ NetOf(J) <= NetOf(I)
                      /\ NetOf(J) = NetOf(I) /\ J # I => EnumeratedBefore(I, J)
    /\ /\ Returned
       /\ credit_cards = <<CardA, CardB>>
       /\ annual_spending = Profile(4800, 0)
       /\ max_portfolio_size = <<2>>
       /\ Cands = credit_cards
       => /\ search_result[1].best_portfolio = << <<CardA>> >>
          /\ search_result[1].best_val = 4900

\* the fixture has been searched: CardA alone and CardA with CardB both net 49
C6_Witness ==
    /\ Returned
    /\ credit_cards = <<CardA, CardB>>
    /\ annual_spending = Profile(4800, 0)
    /\ max_portfolio_size = <<2>>
    /\ max_cards = <<>>
    /\ NetOf({1}) = 4900 /\ NetOf({1, 2}) = 4900 /\ NetOf({2}) = 4800

---------------------------------------------------------------------------
(* C7, C8, C10: evaluate_portfolio *)

\* a step of evaluate_portfolio or of apply_rebates
EngineStep ==
    \/ eval_history' # eval_history /\ eval_history' # <<>>
    \/ pc # "idle"
    \/ pc' # "idle"

\* C7: evaluate_portfolio and apply_rebates leave the caller's spending
\* profile, rebate usage state and cards as they were, and the evaluations
\* made of the same inputs all return the same result.
C7_EvaluationIsPure ==
    /\ [](\A i, j \in DOMAIN eval_history : eval_history[i] = eval_history[j])
    /\ [][EngineStep =>
            UNCHANGED <<credit_cards, annual_spending, rebate_usage>>]_vars

\* a portfolio whose category rebates used up some spend was evaluated twice
C7_Witness ==
    /\ Len(eval_history) >= 2
    /\ ~eval_history[1].raised
    /\ \E x \in Entries(eval_history[1].per_card_details) :
          x.entry.is_category /\ x.entry.used > 0
    /\ \E x \in Entries(eval_history[1].per_card_details) :
          ~x.entry.is_category /\ ~x.entry.applied

SpendLevels == {0, 100, 250, 500, 4800}

\* the best-card value evaluate_portfolio gives category cat at spend s
BestValueAt(cat, s) ==
    assignment_of(credit_cards, [annual_spending EXCEPT ![cat] = s])[cat][2]

LastEval == eval_history[Len(eval_history)]

\* C8: for a non-empty portfolio (multipliers >= 0, point values > 0) the
\* best-card value of a category does not fall when that category's spend
\* rises, everything else equal.
C8_BestValueMonotone ==
    eval_history # <<>> /\ ~LastEval.raised /\ credit_cards # <<>> =>
        \A cat \in DOMAIN annual_spending :
            /\ LastEval.assignment[cat][2] = BestValueAt(cat, annual_spending[cat])
            /\ \A s \in SpendLevels :
                  LET at_s == BestValueAt(cat, s)
                  IN  /\ s <= annual_spending[cat] => at_s <= LastEval.assignment[cat][2]
                      /\ s >= annual_spending[cat] => at_s >= LastEval.assignment[cat][2]

\* an evaluation gave a category a positive best value that is above the
\* value at a lower spend and below the value at a higher one
C8_Witness ==
    /\ eval_history # <<>> /\ ~LastEval.raised /\ Len(credit_cards) >= 2
    /\ \E s1, s2 \in SpendLevels :
          /\ s1 < annual_spending["dining"] /\ annual_spending["dining"] < s2
          /\ 0 < BestValueAt("dining", s1)
          /\ BestValueAt("dining", s1) < LastEval.assignment["dining"][2]
          /\ LastEval.assignment["dining"][2] < BestValueAt("dining", s2)

\* the value line 123 gives card i of the portfolio for category cat
ValueOf(i, cat) ==
    get_reward_rate(credit_cards[i], cat) * annual_spending[cat]
        * point_value(credit_cards[i])

\* C10 (as claimed): for a non-empty portfolio the assignment of every
\* category names the first card of the portfolio whose value is the
\* greatest over the portfolio's cards, and records that value, also when
\* the greatest value is 0.
C10_AssignmentNamesFirstBest ==
    eval_history # <<>> /\ ~LastEval.raised /\ credit_cards # <<>> =>
        \A cat \in DOMAIN annual_spending :
            \E i \in DOMAIN credit_cards :
                /\ \A j \in DOMAIN credit_cards : ValueOf(j, cat) <= ValueOf(i, cat)
                /\ \A j \in 1 .. i - 1 : ValueOf(j, cat) < ValueOf(i, cat)
                /\ LastEval.assignment[cat] = << <<credit_cards[i].name>>, ValueOf(i, cat) >>

---------------------------------------------------------------------------
(* C9 *)

\* where a gathered rebate was met: card position, then rebate index
CardPosition(n) == CHOOSE i \in DOMAIN credit_cards : credit_cards[i].name = n

MetBefore(a, b) ==
    \/ CardPosition(a.card) < CardPosition(b.card)
    \/ CardPosition(a.card) = CardPosition(b.card) /\ a.idx < b.idx

\* what position k of the walked list may use: the rebate's amount, or what
\* the earlier positions of its category have left of the spend
RECURSIVE UsedAt(_)
UsedAt(k) ==
    LET cr      == category_rebates[k]
        earlier == {j \in 1 .. k - 1 : category_rebates[j].cat = cr.cat}
        left    == annual_spending[cr.cat]
                     - SumSet([j \in earlier |-> UsedAt(j)], earlier)
    IN  IF left < cr.amount THEN left ELSE cr.amount

\* C9: the category rebates are served in order of amount descending, equal
\* amounts in encounter order; each gets used = min(remaining spend of its
\* category, amount) and applied = (used > 0).  With two cards each holding
\* a $300 dining rebate and $250 dining spend, the first card's rebate uses
\* $250 and the second card's entry has used = 0, applied = false.
C9_GreedyLargestFirst ==
    /\ pc = "returned" =>
          /\ Range(category_rebates) = Range(Gather(credit_cards))
          /\ Len(category_rebates) = Len(Gather(credit_cards))
          /\ \A i, j \in DOMAIN category_rebates :
                i < j =>
                   \/ category_rebates[i].amount > category_rebates[j].amount
                   \/ /\ category_rebates[i].amount = category_rebates[j].amount
                      /\ MetBefore(category_rebates[i], category_rebates[j])
          /\ \A k \in DOMAIN category_rebates :
                \E x \in Entries(per_card_details) :
                   /\ x.card = category_rebates[k].card
                   /\ x.entry.idx = category_rebates[k].idx
                   /\ x.entry.is_category
                   /\ x.entry.amount = category_rebates[k].amount
                   /\ x.entry.used = UsedAt(k)
                   /\ x.entry.applied = (UsedAt(k) > 0)
          /\ Cardinality({x \in Entries(per_card_details) : x.entry.is_category})
                = Len(category_rebates)
    /\ /\ pc = "returned"
       /\ credit_cards = <<CardC, CardD>>
       /\ annual_spending["dining"] = 250
       => /\ AllCategoryUsed(per_card_details) = 250
          /\ per_card_details["CardC"][1].is_category
          /\ per_card_details["CardC"][1].used = 250
          /\ per_card_details["CardD"][1].is_category
          /\ per_card_details["CardD"][1].used = 0
          /\ ~per_card_details["CardD"][1].applied

\* the scenario has been walked: two $300 dining rebates, $250 dining spend
C9_Witness ==
    /\ pc = "returned"
    /\ credit_cards = <<CardC, CardD>>
    /\ annual_spending["dining"] = 250
    /\ Len(category_rebates) = 2
    /\ category_rebates[1].amount = 300 /\ category_rebates[2].amount = 300

---------------------------------------------------------------------------
(* C11 *)

\* the gathered category rebates whose category is no key of the profile
Unmapped == {cr \in Range(Gather(credit_cards)) : cr.cat \notin DOMAIN annual_spending}

\* card without its category rebates on categories outside the profile
DropUnmapped(card) ==
    IF "rebates" \notin DOMAIN card THEN card
    ELSE [card EXCEPT !.rebates =
            SelectSeq(@, LAMBDA r : ~(r.type = "category"
                                       /\ r.category \notin DOMAIN annual_spending))]

CardsWithoutUnmapped == [i \in DOMAIN credit_cards |-> DropUnmapped(credit_cards[i])]

\* C11 (as claimed): a category rebate on a category that is no key of the
\* spending profile adds 0 to the total: apply_rebates does not raise, its
\* ledger holds an entry for that rebate with used = 0 and applied = false,
\* and the total is what it would be with that rebate absent.
C11_UnmappedCategoryContributesZero ==
    Unmapped # {} =>
        /\ pc # "raised"
        /\ pc = "returned" =>
              /\ \A cr \in Unmapped :
                    \E x \in Entries(per_card_details) :
                       /\ x.card = cr.card /\ x.entry.idx = cr.idx
                       /\ x.entry.is_category
                       /\ x.entry.used = 0 /\ ~x.entry.applied
              /\ total_rebate
                    = apply_rebates(CardsWithoutUnmapped, annual_spending,
                                    rebate_usage).total_rebate

=============================================================================
